---- MODULE Spec2Model ----
(***************************************************************************)
(* A model of scripts/tf2_extractor.py: the extraction loop that streams   *)
(* a list of images through an object detector, builds one detection       *)
(* record per image with prepare_dict, and writes it either inline or      *)
(* through a pool of two writer processes; the problems dict and its       *)
(* report; the end-of-run summary.                                         *)
(*                                                                         *)
(* A file basename is a sequence of decimal digits (<<0, 1>> is "01").     *)
(* An output path is the integer int(basename) - img_offset: str() of an   *)
(* integer is its canonical decimal form, the folder and the suffix are    *)
(* fixed for a run, so the string built at line 154 is one-to-one with     *)
(* that integer.                                                           *)
(*                                                                         *)
(* The script is run once and, after it has ended or was terminated, a     *)
(* second time on the same list and the same files: run is 1, then 2.      *)
(*                                                                         *)
(* Spec starts at the head of the loop, after a start that succeeded.      *)
(* SpecSetup starts at the parsed arguments and runs the checks, the       *)
(* creation of pool and folder and the model load before a loop over one   *)
(* entry. SpecPD applies prepare_dict to every bounded raw output.         *)
(***************************************************************************)
EXTENDS Integers, Sequences, FiniteSets, TLC

\* ------------------------------------------------------------------ bounds
MaxImages == 2
MaxK == 2
MaxCap == 2

\* ---------------------------------------------------------------- constants
MinElements == 100 * 100 * 3
PoolProcesses == 2
UInt16Mod == 65536

OUT_FIELDS ==
    {"detection_scores", "detection_classes", "detection_boxes", "detection_features"}

\* ------------------------------------------------------------ input domains
\* basenames of the list file: "1", "01" and "2"
Names == {<<1>>, <<0, 1>>, <<2>>}
\* decoded element counts on either side of the minimum footprint
Sizes == {MinElements - 1, MinElements}
Entries == [name : Names, elems : Sizes]
Offsets == {0, 1}

RECURSIVE StrToInt(_)
\* int(orig_img_name): the decimal value of a digit string, leading zeros dropped
StrToInt(s) ==
    IF s = <<>> THEN 0 ELSE 10 * StrToInt(SubSeq(s, 1, Len(s) - 1)) + s[Len(s)]

Paths == {StrToInt(n) - o : n \in Names, o \in Offsets}

Workers == 1..PoolProcesses

VARIABLES
    image_list,     \* the entries read from the list file, in file order
    parallel,       \* args.parallel: pool is a Pool(processes=2), else None
    img_offset,     \* args.img_offset
    class_offset,   \* raw class-score width minus num_classes
    num_proposals,  \* args.num_proposals
    run,            \* 1 in the first run of the script, 2 in the run after it
    pc,             \* where the main process stands
    idx,            \* position of the loop in image_list (1-based)
    problems,       \* the problems dict, in insertion order: <<name, reason>>
    n_total,
    n_extracted,
    raw,            \* the detector's output for the current image
    dets,           \* the record prepare_dict built for the current image
    queue,          \* writes given to the pool and not yet taken by a worker
    workers,        \* what each pool process is writing, or None
    files,          \* per output path: "absent", "partial" or "complete"
    report,         \* the problem report file: None or its content
    stats,          \* the three numbers the summary printed, or None
    calls,          \* history: list positions the detector was invoked on
    outcome,        \* history: what the loop did with each list position
    dispatched,     \* history: list positions whose write was dispatched
    written,        \* history: list positions whose write was completed
    failed,         \* history: list positions whose write raised
    files0,         \* history: files as they were when this run started
    report0,        \* history: the report as it was when this run started
    ended,          \* history: how each earlier run ended and what it printed
    format,         \* args.format
    HICKLE,         \* whether import hickle succeeded
    model_folder,   \* args.model_folder, as the parts of the folder's name
    optimize,       \* python -O: assert statements are not executed
    dump_suffix,    \* the suffix get_dump_fn returned, "unset" before
    pool,           \* "unset", then "Pool" or "None"
    out_folder,     \* "absent", "there before" the run, or "created" by it
    model           \* "unset", "loaded", then "warm"

\* what the start of the script reads and sets
setup_vars == <<format, HICKLE, model_folder, optimize, dump_suffix, pool,
                out_folder, model>>

vars == <<image_list, parallel, img_offset, class_offset, num_proposals, run, pc,
          idx, problems, n_total, n_extracted, raw, dets, queue, workers, files,
          report, stats, calls, outcome, dispatched, written, failed, files0,
          report0, ended, format, HICKLE, model_folder, optimize, dump_suffix,
          pool, out_folder, model>>

\* values a variable holds while it is unset
NoOutput == [detection_scores |-> << <<>> >>, detection_classes |-> << <<>> >>,
             detection_boxes |-> << <<>> >>, detection_features |-> << <<>> >>,
             num_detections |-> -1]
NoDets == [detection_scores |-> <<>>, detection_classes |-> <<>>,
           detection_boxes |-> <<>>, detection_features |-> <<>>,
           num_detections |-> -1]
NoTask == [idx |-> 0, path |-> 0]
NoStats == [total |-> -1, problems |-> -1, extracted |-> -1]
NoReport == [exists |-> FALSE, content |-> <<>>]

Min(a, b) == IF a < b THEN a ELSE b
Max(a, b) == IF a > b THEN a ELSE b

\* ------------------------------------------------------------ prepare_dict
\* raw class values a detector may return, as whole-valued floats; with the
\* class offsets below they shift into, below and above the range 0..65535
ClassVals == {0, 1, UInt16Mod - 1, UInt16Mod}
ClassOffsets == {0, 1}

\* The detector's output for one image with K proposals: every array field has
\* shape (1, K, ...), num_detections is a whole-valued scalar in 0..K.
\* The entries of scores, boxes and features are told apart by their position.
RawOutput(classes, num) ==
    LET K == Len(classes) IN
    [detection_scores   |-> << [i \in 1..K |-> 100 - i] >>,
     detection_classes  |-> << classes >>,
     detection_boxes    |-> << [i \in 1..K |-> <<i, i, i + 1, i + 1>>] >>,
     detection_features |-> << [i \in 1..K |-> <<i>>] >>,
     num_detections     |-> num]

RawOutputs ==
    UNION {{RawOutput(c, n) : c \in [1..K -> ClassVals], n \in 0..K} : K \in 0..MaxK}

\* the outputs the detector returns in the extraction loop of the model
MainRawOutputs ==
    {RawOutput([i \in 1..MaxK |-> 1], n) : n \in {MaxK - 1, MaxK}}

\* a.squeeze(0): drop the leading axis, which has length 1
Squeeze0(a) == a[1]

\* the slice left out: the whole sequence
SliceTo_Whole(s, n) == s

\* s[:n], Python's slice: a negative stop counts from the end
SliceTo(s, n) ==
    LET stop == IF n < 0 THEN Max(Len(s) + n, 0) ELSE Min(n, Len(s))
    IN  SubSeq(s, 1, stop)

\* x.astype(np.uint16) of a whole-valued float x. In range the value is kept.
\* Out of range the C conversion is undefined: the build yields the value
\* modulo 2^16 or the nearest end of the range. No outcome raises.
AsUint16(x) ==
    IF 0 <= x /\ x < UInt16Mod
    THEN {x}
    ELSE {x % UInt16Mod, IF x < 0 THEN 0 ELSE UInt16Mod - 1}

\* (d['detection_classes'] - float(class_offset)).astype(np.uint16)
ShiftClasses(classes, offset) ==
    LET shifted == [i \in 1..Len(classes) |-> classes[i] - offset]
        vals == UNION {AsUint16(shifted[i]) : i \in 1..Len(classes)}
    IN  {c \in [1..Len(classes) -> vals] :
            \A i \in 1..Len(classes) : c[i] \in AsUint16(shifted[i])}

\* the cap itself, whatever the detector reports
NumDetections_Cap(output, cap) == cap

\* min(int(output['num_detections']), num_proposals)
NumDetections(output, cap) == Min(output.num_detections, cap)

\* prepare_dict(output, class_offset, num_proposals): the records it may return
prepare_dict(output, offset, cap) ==
    LET d == [k \in OUT_FIELDS |-> SliceTo(Squeeze0(output[k]), cap)]
    IN  {[detection_scores   |-> d["detection_scores"],
          detection_classes  |-> c,
          detection_boxes    |-> d["detection_boxes"],
          detection_features |-> d["detection_features"],
          num_detections     |-> NumDetections(output, cap)] :
            c \in ShiftClasses(d["detection_classes"], offset)}

\* a new key goes to the front
DictSet_Prepend(d, name, reason) ==
    IF \E i \in 1..Len(d) : d[i][1] = name
    THEN [i \in 1..Len(d) |-> IF d[i][1] = name THEN <<name, reason>> ELSE d[i]]
    ELSE <<<<name, reason>>>> \o d

\* ----------------------------------------------------------- problems dict
\* problems[name] = reason: a dict keeps a key's first position and its last value
\* an assignment that is lost
DictSet_Lost(d, name, reason) == d

DictHas(d, name) == \E i \in 1..Len(d) : d[i][1] = name

DictSet(d, name, reason) ==
    IF DictHas(d, name)
    THEN [i \in 1..Len(d) |-> IF d[i][1] = name THEN <<name, reason>> ELSE d[i]]
    ELSE Append(d, <<name, reason>>)

DictGet(d, name) == d[CHOOSE i \in 1..Len(d) : d[i][1] = name][2]

\* ------------------------------------------------------ the problem report
\* f.write(f'{img_name}\t{prob}'): the text one entry adds to the report
FormatEntry(e) == << <<"id", e[1]>>, <<"tab">>, <<"reason", e[2]>> >>

RECURSIVE ReportText(_)
\* what the loop over problems.items() writes, entry after entry
ReportText(d) ==
    IF d = <<>> THEN <<>> ELSE FormatEntry(Head(d)) \o ReportText(Tail(d))

RECURSIVE SplitLines(_, _)
\* the lines of a text: a line ends at a newline or at the end of the text
SplitLines(text, line) ==
    IF text = <<>>
    THEN IF line = <<>> THEN <<>> ELSE <<line>>
    ELSE IF Head(text)[1] = "nl"
         THEN <<line>> \o SplitLines(Tail(text), <<>>)
         ELSE SplitLines(Tail(text), Append(line, Head(text)))

Lines(text) == SplitLines(text, <<>>)

\* ------------------------------------------------------- the extraction loop
\* orig_img_name = image_list[idx].split('/')[-1]
orig_img_name(i) == image_list[i].name

\* dump_fname: str(out_folder / str(int(orig_img_name) - args.img_offset)) + suffix
dump_fname(i) == StrToInt(orig_img_name(i)) - img_offset

\* the comparison with the boundary included
IsTooSmall_Inclusive(img) == img.elems <= 100 * 100 * 3

\* img.shape.num_elements() < 100*100*3
IsTooSmall(img) == img.elems < MinElements

\* an existence test that takes only a finished file
PathExists_Finished(p) == files[p] = "complete"

\* os.path.exists(dump_fname): true of a file that is still being written
PathExists(p) == files[p] # "absent"

Running == pc \in {"loop", "breakpoint", "extract", "dump", "flush", "summary"}

InLoopBody == pc = "loop" /\ idx <= n_total

Advance == idx' = idx + 1 /\ pc' = "loop"

Init ==
    /\ image_list \in UNION {[1..n -> Entries] : n \in 1..MaxImages}
    /\ parallel \in BOOLEAN
    /\ img_offset \in Offsets
    /\ class_offset = 1
    /\ num_proposals = MaxCap
    /\ run = 1
    /\ pc = "loop"
    /\ idx = 1
    /\ problems = <<>>
    /\ n_total = Len(image_list)
    /\ n_extracted = 0
    /\ raw = NoOutput
    /\ dets = NoDets
    /\ queue = <<>>
    /\ workers = [w \in Workers |-> NoTask]
    /\ files \in {f \in [Paths -> {"absent", "complete"}] :
                    \A p \in Paths : f[p] = "complete" =>
                        \E i \in 1..Len(image_list) : dump_fname(i) = p}
    /\ report = NoReport
    /\ stats = NoStats
    /\ calls = <<>>
    /\ outcome = [i \in 1..Len(image_list) |-> "none"]
    /\ dispatched = <<>>
    /\ written = {}
    /\ failed = {}
    /\ files0 = files
    /\ report0 = report
    /\ ended = <<>>
    /\ format = "pickle"
    /\ HICKLE = TRUE
    /\ model_folder = <<"faster_rcnn", "oid_v4", "2018_12_12">>
    /\ optimize = FALSE
    /\ dump_suffix = ".pkl.gz"
    /\ pool = (IF parallel THEN "Pool" ELSE "None")
    /\ out_folder = "created"
    /\ model = "warm"

\* line 156-158: the image is too small
TooSmall ==
    /\ InLoopBody
    /\ IsTooSmall(image_list[idx])
    /\ problems' = DictSet(problems, orig_img_name(idx), "too small")
    /\ outcome' = [outcome EXCEPT ![idx] = "too small"]
    /\ Advance
    /\ UNCHANGED <<image_list, parallel, img_offset, class_offset, num_proposals,
                   run, n_total, n_extracted, raw, dets, queue, workers, files,
                   report, stats, calls, dispatched, written, failed, files0,
                   report0, ended>>
    /\ UNCHANGED setup_vars

\* line 159, the elif is false: the artifact is there, nothing is done
AlreadyExtracted ==
    /\ InLoopBody
    /\ ~IsTooSmall(image_list[idx])
    /\ PathExists(dump_fname(idx))
    /\ outcome' = [outcome EXCEPT ![idx] = "already extracted"]
    /\ Advance
    /\ UNCHANGED <<image_list, parallel, img_offset, class_offset, num_proposals,
                   run, problems, n_total, n_extracted, raw, dets, queue, workers,
                   files, report, stats, calls, dispatched, written, failed, files0,
                   report0, ended>>
    /\ UNCHANGED setup_vars

\* line 160-163: model(img[None, ...]) raises
ModelRaises ==
    /\ InLoopBody
    /\ ~IsTooSmall(image_list[idx])
    /\ ~PathExists(dump_fname(idx))
    /\ calls' = Append(calls, idx)
    /\ problems' = DictSet(problems, orig_img_name(idx), "inference exception")
    /\ outcome' = [outcome EXCEPT ![idx] = "inference exception"]
    /\ Advance
    /\ UNCHANGED <<image_list, parallel, img_offset, class_offset, num_proposals,
                   run, n_total, n_extracted, raw, dets, queue, workers, files,
                   report, stats, dispatched, written, failed, files0, report0, ended>>
    /\ UNCHANGED setup_vars

\* line 160-161, 164-165: model(img[None, ...]) returns; breakpoint() stops the loop
ModelReturns ==
    /\ InLoopBody
    /\ ~IsTooSmall(image_list[idx])
    /\ ~PathExists(dump_fname(idx))
    /\ calls' = Append(calls, idx)
    /\ raw' \in MainRawOutputs
    /\ pc' = "breakpoint"
    /\ UNCHANGED <<image_list, parallel, img_offset, class_offset, num_proposals,
                   run, idx, problems, n_total, n_extracted, dets, queue, workers,
                   files, report, stats, outcome, dispatched, written, failed,
                   files0, report0, ended>>
    /\ UNCHANGED setup_vars

\* line 165: the debugger is told to continue (or breakpoints are switched off)
Breakpoint ==
    /\ pc = "breakpoint"
    /\ pc' = "extract"
    /\ UNCHANGED <<image_list, parallel, img_offset, class_offset, num_proposals,
                   run, idx, problems, n_total, n_extracted, raw, dets, queue,
                   workers, files, report, stats, calls, outcome, dispatched,
                   written, failed, files0, report0, ended>>
    /\ UNCHANGED setup_vars

\* line 165: the debugger is told to quit (or reads the end of its input):
\* BdbQuit leaves the else branch uncaught and the script ends, and with it
\* the pool
BreakpointQuit ==
    /\ pc = "breakpoint"
    /\ pc' = "aborted"
    /\ raw' = NoOutput
    /\ queue' = <<>>
    /\ workers' = [w \in Workers |-> NoTask]
    /\ UNCHANGED <<image_list, parallel, img_offset, class_offset, num_proposals,
                   run, idx, problems, n_total, n_extracted, dets, files, report,
                   stats, calls, outcome, dispatched, written, failed, files0,
                   report0, ended>>
    /\ UNCHANGED setup_vars

\* the pool takes a new task only when none is waiting
ExtractPooled_Bounded ==
    /\ pc = "extract"
    /\ parallel
    /\ queue = <<>>
    /\ \E d \in prepare_dict(raw, class_offset, num_proposals) :
          /\ n_extracted' = n_extracted + 1
          /\ queue' = Append(queue, [idx |-> idx, path |-> dump_fname(idx)])
    /\ dispatched' = Append(dispatched, idx)
    /\ outcome' = [outcome EXCEPT ![idx] = "extracted"]
    /\ raw' = NoOutput
    /\ dets' = NoDets
    /\ Advance
    /\ UNCHANGED <<image_list, parallel, img_offset, class_offset, num_proposals,
                   run, problems, n_total, workers, files, report, stats, calls,
                   written, failed, files0, report0, ended>>
    /\ UNCHANGED setup_vars

\* line 166-170: build the record, count it, hand the write to the pool.
\* apply_async queues the task and returns; its result object is dropped.
ExtractPooled ==
    /\ pc = "extract"
    /\ parallel
    /\ \E d \in prepare_dict(raw, class_offset, num_proposals) :
          /\ n_extracted' = n_extracted + 1
          /\ queue' = Append(queue, [idx |-> idx, path |-> dump_fname(idx)])
    /\ dispatched' = Append(dispatched, idx)
    /\ outcome' = [outcome EXCEPT ![idx] = "extracted"]
    /\ raw' = NoOutput
    /\ dets' = NoDets
    /\ Advance
    /\ UNCHANGED <<image_list, parallel, img_offset, class_offset, num_proposals,
                   run, problems, n_total, workers, files, report, stats, calls,
                   written, failed, files0, report0, ended>>
    /\ UNCHANGED setup_vars

\* line 166-168, 171-172: build the record, count it, start writing it inline.
\* Every dump function opens dump_fname itself for writing (line 93, 96, 98).
ExtractInline ==
    /\ pc = "extract"
    /\ ~parallel
    /\ dets' \in prepare_dict(raw, class_offset, num_proposals)
    /\ n_extracted' = n_extracted + 1
    /\ files' = [files EXCEPT ![dump_fname(idx)] = "partial"]
    /\ dispatched' = Append(dispatched, idx)
    /\ outcome' = [outcome EXCEPT ![idx] = "extracted"]
    /\ raw' = NoOutput
    /\ pc' = "dump"
    /\ UNCHANGED <<image_list, parallel, img_offset, class_offset, num_proposals,
                   run, idx, problems, n_total, queue, workers, report, stats, calls,
                   written, failed, files0, report0, ended>>
    /\ UNCHANGED setup_vars

\* line 172: dump_detections(dets, dump_fname) returns
DumpReturns ==
    /\ pc = "dump"
    /\ files' = [files EXCEPT ![dump_fname(idx)] = "complete"]
    /\ written' = written \cup {idx}
    /\ dets' = NoDets
    /\ Advance
    /\ UNCHANGED <<image_list, parallel, img_offset, class_offset, num_proposals,
                   run, problems, n_total, n_extracted, raw, queue, workers, report,
                   stats, calls, outcome, dispatched, failed, files0, report0, ended>>
    /\ UNCHANGED setup_vars

\* the write error is swallowed and the loop goes on
DumpRaises_Swallowed ==
    /\ pc = "dump"
    /\ failed' = failed \cup {idx}
    /\ dets' = NoDets
    /\ Advance
    /\ UNCHANGED <<image_list, parallel, img_offset, class_offset, num_proposals,
                   run, problems, n_total, n_extracted, raw, queue, workers,
                   files, report, stats, calls, outcome, dispatched, written, files0,
                   report0, ended>>
    /\ UNCHANGED setup_vars

\* line 172: dump_detections raises; nothing catches it and the script ends
DumpRaises ==
    /\ pc = "dump"
    /\ pc' = "aborted"
    /\ failed' = failed \cup {idx}
    /\ dets' = NoDets
    /\ UNCHANGED <<image_list, parallel, img_offset, class_offset, num_proposals,
                   run, idx, problems, n_total, n_extracted, raw, queue, workers,
                   files, report, stats, calls, outcome, dispatched, written, files0,
                   report0, ended>>
    /\ UNCHANGED setup_vars

\* line 150: the dataset is exhausted
LoopEnds ==
    /\ pc = "loop"
    /\ idx > n_total
    /\ pc' = "flush"
    /\ UNCHANGED <<image_list, parallel, img_offset, class_offset, num_proposals,
                   run, idx, problems, n_total, n_extracted, raw, dets, queue,
                   workers, files, report, stats, calls, outcome, dispatched,
                   written, failed, files0, report0, ended>>
    /\ UNCHANGED setup_vars

\* line 174-178: the report is written when there are problems
FlushReport ==
    /\ pc = "flush"
    /\ Len(problems) > 0
    /\ report' = [exists |-> TRUE, content |-> ReportText(problems)]
    /\ pc' = "summary"
    /\ UNCHANGED <<image_list, parallel, img_offset, class_offset, num_proposals,
                   run, idx, problems, n_total, n_extracted, raw, dets, queue,
                   workers, files, stats, calls, outcome, dispatched, written,
                   failed, files0, report0, ended>>
    /\ UNCHANGED setup_vars

\* line 174: no problems, no report
SkipReport ==
    /\ pc = "flush"
    /\ ~(Len(problems) > 0)
    /\ pc' = "summary"
    /\ UNCHANGED <<image_list, parallel, img_offset, class_offset, num_proposals,
                   run, idx, problems, n_total, n_extracted, raw, dets, queue,
                   workers, files, report, stats, calls, outcome, dispatched,
                   written, failed, files0, report0, ended>>
    /\ UNCHANGED setup_vars

\* line 180-183: the summary is printed and the script ends. Nothing closes or
\* joins the pool (line 110 is its only other use): at exit its finalizer drops
\* the queued writes and terminates the two processes where they stand.
Summary ==
    /\ pc = "summary"
    /\ stats' = [total |-> n_total, problems |-> Len(problems),
                 extracted |-> n_extracted]
    /\ queue' = <<>>
    /\ workers' = [w \in Workers |-> NoTask]
    /\ pc' = "done"
    /\ UNCHANGED <<image_list, parallel, img_offset, class_offset, num_proposals,
                   run, idx, problems, n_total, n_extracted, raw, dets, files,
                   report, calls, outcome, dispatched, written, failed, files0,
                   report0, ended>>
    /\ UNCHANGED setup_vars

\* ------------------------------------------------------------ the writer pool
\* a pool process takes the oldest queued write and opens the file for writing
WorkerTakes(w) ==
    /\ Running
    /\ workers[w] = NoTask
    /\ queue # <<>>
    /\ workers' = [workers EXCEPT ![w] = Head(queue)]
    /\ queue' = Tail(queue)
    /\ files' = [files EXCEPT ![Head(queue).path] = "partial"]
    /\ UNCHANGED <<image_list, parallel, img_offset, class_offset, num_proposals,
                   run, pc, idx, problems, n_total, n_extracted, raw, dets, report,
                   stats, calls, outcome, dispatched, written, failed, files0,
                   report0, ended>>
    /\ UNCHANGED setup_vars

\* the write returns: the file is whole unless the other process still writes it
WorkerReturns(w) ==
    /\ Running
    /\ workers[w] # NoTask
    /\ files' = [files EXCEPT ![workers[w].path] =
                    IF \E v \in Workers \ {w} : workers[v] # NoTask
                                                /\ workers[v].path = workers[w].path
                    THEN "partial" ELSE "complete"]
    /\ written' = written \cup {workers[w].idx}
    /\ workers' = [workers EXCEPT ![w] = NoTask]
    /\ UNCHANGED <<image_list, parallel, img_offset, class_offset, num_proposals,
                   run, pc, idx, problems, n_total, n_extracted, raw, dets, queue,
                   report, stats, calls, outcome, dispatched, failed, files0,
                   report0, ended>>
    /\ UNCHANGED setup_vars

\* the write raises in the pool process: the error goes into the result object
\* that line 170 dropped, and the main process never sees it
WorkerRaises(w) ==
    /\ Running
    /\ workers[w] # NoTask
    /\ failed' = failed \cup {workers[w].idx}
    /\ workers' = [workers EXCEPT ![w] = NoTask]
    /\ UNCHANGED <<image_list, parallel, img_offset, class_offset, num_proposals,
                   run, pc, idx, problems, n_total, n_extracted, raw, dets, queue,
                   files, report, stats, calls, outcome, dispatched, written, files0,
                   report0, ended>>
    /\ UNCHANGED setup_vars

\* ------------------------------------------------------------------ the runs
\* the process is terminated from outside: queued writes are lost, a write in
\* progress stops where it is
Kill ==
    /\ Running
    /\ pc' = "killed"
    /\ queue' = <<>>
    /\ workers' = [w \in Workers |-> NoTask]
    /\ raw' = NoOutput
    /\ dets' = NoDets
    /\ UNCHANGED <<image_list, parallel, img_offset, class_offset, num_proposals,
                   run, idx, problems, n_total, n_extracted, files, report, stats,
                   calls, outcome, dispatched, written, failed, files0, report0,
                   ended>>
    /\ UNCHANGED setup_vars

\* the script is started a second time on the same list, with the files left as
\* they are
Restart ==
    /\ pc \in {"done", "killed", "aborted"}
    /\ run = 1
    /\ run' = run + 1
    /\ ended' = Append(ended, [how |-> pc, stats |-> stats])
    /\ pc' = "loop"
    /\ idx' = 1
    /\ problems' = <<>>
    /\ n_extracted' = 0
    /\ stats' = NoStats
    /\ calls' = <<>>
    /\ outcome' = [i \in 1..Len(image_list) |-> "none"]
    /\ dispatched' = <<>>
    /\ written' = {}
    /\ failed' = {}
    /\ files0' = files
    /\ report0' = report
    /\ UNCHANGED <<image_list, parallel, img_offset, class_offset, num_proposals,
                   n_total, raw, dets, queue, workers, files, report>>
    /\ UNCHANGED setup_vars

Next ==
    \/ TooSmall
    \/ AlreadyExtracted
    \/ ModelRaises
    \/ ModelReturns
    \/ Breakpoint
    \/ BreakpointQuit
    \/ ExtractPooled
    \/ ExtractInline
    \/ DumpReturns
    \/ DumpRaises
    \/ LoopEnds
    \/ FlushReport
    \/ SkipReport
    \/ Summary
    \/ \E w \in Workers : WorkerTakes(w)
    \/ \E w \in Workers : WorkerReturns(w)
    \/ \E w \in Workers : WorkerRaises(w)
    \/ Kill
    \/ Restart

Spec == Init /\ [][Next]_vars

\* ------------------------------------------------- prepare_dict on its own
\* The record builder applied once to every raw output, class offset and cap of
\* the bounded domains; the variables of the loop stay as they are.
InitPD ==
    /\ raw \in RawOutputs
    /\ class_offset \in ClassOffsets
    /\ num_proposals \in 0..MaxCap
    /\ dets = NoDets
    /\ pc = "pd_call"
    /\ image_list = <<>>
    /\ parallel = FALSE
    /\ img_offset = 0
    /\ run = 1
    /\ idx = 1
    /\ problems = <<>>
    /\ n_total = 0
    /\ n_extracted = 0
    /\ queue = <<>>
    /\ workers = [w \in Workers |-> NoTask]
    /\ files = [p \in Paths |-> "absent"]
    /\ report = NoReport
    /\ stats = NoStats
    /\ calls = <<>>
    /\ outcome = <<>>
    /\ dispatched = <<>>
    /\ written = {}
    /\ failed = {}
    /\ files0 = files
    /\ report0 = report
    /\ ended = <<>>
    /\ format = "pickle"
    /\ HICKLE = TRUE
    /\ model_folder = <<"faster_rcnn", "oid_v4", "2018_12_12">>
    /\ optimize = FALSE
    /\ dump_suffix = ".pkl.gz"
    /\ pool = (IF parallel THEN "Pool" ELSE "None")
    /\ out_folder = "created"
    /\ model = "warm"

\* line 166-167: dets = prepare_dict(dets, class_offset=..., num_proposals=...)
PrepareDictCall ==
    /\ pc = "pd_call"
    /\ dets' \in prepare_dict(raw, class_offset, num_proposals)
    /\ pc' = "pd_done"
    /\ UNCHANGED <<image_list, parallel, img_offset, class_offset, num_proposals,
                   run, idx, problems, n_total, n_extracted, raw, queue, workers,
                   files, report, stats, calls, outcome, dispatched, written,
                   failed, files0, report0, ended>>
    /\ UNCHANGED setup_vars

NextPD == PrepareDictCall

SpecPD == InitPD /\ [][NextPD]_vars

\* ------------------------------------------------- the start of the script
\* Lines 78-149, from the parsed arguments to the head of the loop, followed by
\* the loop over a list of one entry.
FORMATS == {"pickle", "hickle", "npz"}

\* formats the option parser accepts: -f takes any string
FormatArgs == FORMATS \union {"json"}

ModelFolders == {<<"faster_rcnn", "oid_v4", "2018_12_12">>,
                 <<"faster_rcnn", "coco", "2018_01_28">>}

\* 'oid_v4' in args.model_folder
IsOidV4(folder) == \E k \in 1..Len(folder) : folder[k] = "oid_v4"

HickleMissing_Inverted == format = "hickle" /\ HICKLE

\* line 81: args.format == 'hickle' and not HICKLE
HickleMissing == format = "hickle" /\ ~HICKLE

\* the suffix get_dump_fn returns for a format it knows
SuffixOf(f) ==
    CASE f = "pickle" -> ".pkl.gz"
      [] f = "hickle" -> ".hkl"
      [] f = "npz" -> ".npz"

InitSetup ==
    /\ format \in FormatArgs
    /\ HICKLE \in BOOLEAN
    /\ model_folder \in ModelFolders
    /\ optimize \in BOOLEAN
    /\ parallel \in BOOLEAN
    /\ out_folder \in {"absent", "there before"}
    /\ dump_suffix = "unset"
    /\ pool = "unset"
    /\ model = "unset"
    /\ image_list \in [1..1 -> Entries]
    /\ img_offset = 0
    /\ class_offset = 0
    /\ num_proposals = MaxCap
    /\ run = 1
    /\ pc = "start"
    /\ idx = 1
    /\ problems = <<>>
    /\ n_total = 0
    /\ n_extracted = 0
    /\ raw = NoOutput
    /\ dets = NoDets
    /\ queue = <<>>
    /\ workers = [w \in Workers |-> NoTask]
    /\ files \in {f \in [Paths -> {"absent", "complete"}] :
                    \A p \in Paths : f[p] = "complete" =>
                        \E i \in 1..Len(image_list) : dump_fname(i) = p}
    /\ report = NoReport
    /\ stats = NoStats
    /\ calls = <<>>
    /\ outcome = [i \in 1..Len(image_list) |-> "none"]
    /\ dispatched = <<>>
    /\ written = {}
    /\ failed = {}
    /\ files0 = files
    /\ report0 = report
    /\ ended = <<>>

\* what no step of the start touches
loop_vars == <<image_list, parallel, img_offset, num_proposals, run, idx, raw,
               dets, queue, workers, files, report, stats, calls, outcome,
               dispatched, written, failed, files0, report0, ended>>

\* line 78-79: assert args.format in (...); python -O does not execute it
CheckFormat ==
    /\ pc = "start"
    /\ pc' = (IF ~optimize /\ format \notin FORMATS THEN "aborted"
              ELSE "check_hickle")
    /\ UNCHANGED <<loop_vars, setup_vars, class_offset, problems, n_total,
                   n_extracted>>

\* line 81-83: hickle asked for and not installed: print, sys.exit(1)
CheckHickle ==
    /\ pc = "check_hickle"
    /\ pc' = (IF HickleMissing THEN "exited" ELSE "check_model")
    /\ UNCHANGED <<loop_vars, setup_vars, class_offset, problems, n_total,
                   n_extracted>>

\* line 85-89: num_classes = 601 for oid_v4, else print, sys.exit(1)
CheckModelFolder ==
    /\ pc = "check_model"
    /\ pc' = (IF IsOidV4(model_folder) THEN "get_dump_fn" ELSE "exited")
    /\ UNCHANGED <<loop_vars, setup_vars, class_offset, problems, n_total,
                   n_extracted>>

\* line 91-107: dump_detections, dump_suffix = get_dump_fn(); for a format it
\* does not know get_dump_fn returns None and the unpacking raises TypeError
GetDumpFn ==
    /\ pc = "get_dump_fn"
    /\ IF format \in FORMATS
       THEN dump_suffix' = SuffixOf(format) /\ pc' = "make_pool"
       ELSE dump_suffix' = dump_suffix /\ pc' = "aborted"
    /\ UNCHANGED <<loop_vars, format, HICKLE, model_folder, optimize, pool,
                   out_folder, model, class_offset, problems, n_total,
                   n_extracted>>

\* line 109-112: pool = Pool(processes=2) if args.parallel else None
MakePool ==
    /\ pc = "make_pool"
    /\ pool' = (IF parallel THEN "Pool" ELSE "None")
    /\ pc' = "mkdir"
    /\ UNCHANGED <<loop_vars, format, HICKLE, model_folder, optimize,
                   dump_suffix, out_folder, model, class_offset, problems,
                   n_total, n_extracted>>

\* line 114-115: out_folder.mkdir(exist_ok=True, parents=True)
MakeOutFolder ==
    /\ pc = "mkdir"
    /\ out_folder' = (IF out_folder = "absent" THEN "created" ELSE out_folder)
    /\ pc' = "load_model"
    /\ UNCHANGED <<loop_vars, format, HICKLE, model_folder, optimize,
                   dump_suffix, pool, model, class_offset, problems, n_total,
                   n_extracted>>

\* line 119-136: the list and the dataset are read, the model is loaded and
\* class_offset is taken from its output signature
LoadModel ==
    /\ pc = "load_model"
    /\ model' = "loaded"
    /\ class_offset' = 1
    /\ pc' = "warm_up"
    /\ UNCHANGED <<loop_vars, format, HICKLE, model_folder, optimize,
                   dump_suffix, pool, out_folder, problems, n_total,
                   n_extracted>>

\* line 139-149: the warm-up call, then problems, n_total and n_extracted
WarmUp ==
    /\ pc = "warm_up"
    /\ model' = "warm"
    /\ problems' = <<>>
    /\ n_total' = Len(image_list)
    /\ n_extracted' = 0
    /\ pc' = "loop"
    /\ UNCHANGED <<loop_vars, format, HICKLE, model_folder, optimize,
                   dump_suffix, pool, out_folder, class_offset>>

NextSetup ==
    \/ CheckFormat
    \/ CheckHickle
    \/ CheckModelFolder
    \/ GetDumpFn
    \/ MakePool
    \/ MakeOutFolder
    \/ LoadModel
    \/ WarmUp
    \/ TooSmall
    \/ AlreadyExtracted
    \/ ModelRaises
    \/ ModelReturns
    \/ Breakpoint
    \/ BreakpointQuit
    \/ ExtractPooled
    \/ ExtractInline
    \/ DumpReturns
    \/ DumpRaises
    \/ LoopEnds
    \/ FlushReport
    \/ SkipReport
    \/ Summary
    \/ \E w \in Workers : WorkerTakes(w)
    \/ \E w \in Workers : WorkerReturns(w)
    \/ \E w \in Workers : WorkerRaises(w)

SpecSetup == InitSetup /\ [][NextSetup]_vars

\* ------------------------------------------------------------------ claims
\* the number of proposals K of the raw output, and its shifted classes
RawK == Len(raw.detection_classes[1])
ArrayFields == {"detection_scores", "detection_boxes", "detection_features"}
InUint16(x) == 0 <= x /\ x <= 65535

\* C9: prepare_dict returns each of the four array fields without the batch
\* dimension and with leading length min(K, cap), holding the first entries of
\* the raw field in their order (the classes shifted by the class offset), and
\* num_detections = min(raw num_detections, cap) <= cap.
C9_Truncation ==
    pc = "pd_done" =>
        LET L == IF RawK < num_proposals THEN RawK ELSE num_proposals IN
        /\ \A f \in ArrayFields :
              /\ Len(dets[f]) = L
              /\ \A i \in 1..L : dets[f][i] = raw[f][1][i]
        /\ Len(dets.detection_classes) = L
        /\ \A i \in 1..L :
              InUint16(raw.detection_classes[1][i] - class_offset) =>
                 dets.detection_classes[i] = raw.detection_classes[1][i] - class_offset
        /\ dets.num_detections =
              (IF raw.num_detections < num_proposals
               THEN raw.num_detections ELSE num_proposals)
        /\ dets.num_detections <= num_proposals

\* a record was built from more proposals than the cap, with more detections
C9_Witness ==
    /\ pc = "pd_done"
    /\ num_proposals > 0
    /\ RawK > num_proposals
    /\ raw.num_detections > num_proposals
    /\ Len(dets.detection_scores) = num_proposals

\* C10: prepare_dict returns a record only when every class index minus the
\* class offset lies in 0..65535, and every class of a returned record is the
\* raw class minus the class offset.
C10_NoWrapAround ==
    pc = "pd_done" =>
        \A i \in 1..Len(dets.detection_classes) :
            /\ InUint16(raw.detection_classes[1][i] - class_offset)
            /\ dets.detection_classes[i] = raw.detection_classes[1][i] - class_offset

\* a step of the main process inside a run (not a pool process, not a kill)
MainStep == run' = run /\ pc' # "killed" /\ (idx' # idx \/ pc' # pc)

\* the loop stands at the head of its body for list position idx
AtEntry == pc = "loop" /\ idx \in 1..n_total

\* some write for list position i is queued or being made
HasTask(i) ==
    \/ \E k \in 1..Len(queue) : queue[k].idx = i
    \/ \E w \in Workers : workers[w].idx = i

C2_TooSmallSkipped ==
    /\ [](\A k \in 1..Len(calls) : image_list[calls[k]].elems >= 30000)
    /\ [][ (AtEntry /\ MainStep) =>
            IF image_list[idx].elems < 30000
            THEN /\ DictHas(problems', orig_img_name(idx))
                 /\ DictGet(problems', orig_img_name(idx)) = "too small"
                 /\ calls' = calls
                 /\ idx' = idx + 1 /\ pc' = "loop"
            ELSE ~(/\ problems' # problems
                   /\ DictGet(problems', orig_img_name(idx)) = "too small")
         ]_vars

\* an image of 29,999 elements was skipped as too small and one of exactly
\* 30,000 elements went to the detector
C2_Witness ==
    \E i, j \in 1..n_total :
        /\ image_list[i].elems = 29999 /\ outcome[i] = "too small"
        /\ DictHas(problems, orig_img_name(i))
        /\ image_list[j].elems = 30000
        /\ \E k \in 1..Len(calls) : calls[k] = j

\* what C3 asks of the step that handles an entry whose artifact exists
SkippedSilently ==
    /\ calls' = calls
    /\ dispatched' = dispatched /\ queue' = queue /\ files' = files
    /\ n_extracted' = n_extracted
    /\ problems' = problems

\* C3 as stated: whatever the size of the image, when its artifact exists the
\* step that handles it invokes no detector, dispatches no write and leaves the
\* extracted counter and the problems dict unchanged.
C3_AnySize ==
    [][ (AtEntry /\ MainStep /\ files[dump_fname(idx)] # "absent") =>
            SkippedSilently ]_vars

\* C3 amended: the same for an image of at least 30,000 elements.
C3_ExistingSkipped ==
    [][ (/\ AtEntry /\ MainStep
         /\ files[dump_fname(idx)] # "absent"
         /\ image_list[idx].elems >= 30000) => SkippedSilently ]_vars

\* an image whose artifact was there before the run was passed over
C3_Witness ==
    \E i \in 1..n_total :
        /\ idx > i
        /\ image_list[i].elems >= 30000
        /\ files0[dump_fname(i)] = "complete"
        /\ outcome[i] = "already extracted"
        /\ \A k \in 1..Len(calls) : calls[k] # i

\* the basenames of the list are pairwise different
UniqueIdentifiers ==
    \A i, j \in 1..n_total : i # j => orig_img_name(i) # orig_img_name(j)

\* no artifact was there when the run started
NoArtifactsBefore == \A p \in Paths : files0[p] = "absent"

TooSmallImages == {i \in 1..n_total : image_list[i].elems < 30000}
RaisedImages == {i \in 1..n_total : outcome[i] = "inference exception"}

\* C4: a finished run over N entries with unique identifiers and no artifacts
\* there before prints total = N, problems = (too-small images) + (images the
\* detector raised on), newly extracted = all the other images.
C4_FinalStatistics ==
    (pc = "done" /\ UniqueIdentifiers /\ NoArtifactsBefore) =>
        /\ stats.total = n_total
        /\ stats.problems = Cardinality(TooSmallImages) + Cardinality(RaisedImages)
        /\ stats.extracted =
              n_total - Cardinality(TooSmallImages) - Cardinality(RaisedImages)

\* this run follows a run that printed its summary / that was terminated
AfterCompletedRun == run = 2 /\ ended[1].how = "done"
AfterKilledRun == run = 2 /\ ended[1].how = "killed"

ExtractedImages == {i \in 1..n_total : outcome[i] = "extracted"}

\* C5 as stated: a run over the same list after a completed run, with that
\* run's artifacts in place, prints newly extracted = 0 and problems = 0.
C5_SecondRunAllZero ==
    (AfterCompletedRun /\ pc = "done") =>
        stats.extracted = 0 /\ stats.problems = 0

\* C5 amended: such a run extracts no image whose path holds an artifact when
\* the run starts (newly extracted counts only images that had none and on
\* which the detector returns, so it is 0 when there is no such image), and its
\* problems count is the number of identifiers of images that are too small or
\* on which the detector raises in this run.
C5_SecondRun ==
    (AfterCompletedRun /\ pc = "done") =>
        /\ \A i \in ExtractedImages : files0[dump_fname(i)] = "absent"
        /\ \A i \in 1..n_total :
              (files0[dump_fname(i)] # "absent" /\ image_list[i].elems >= 30000)
                  => outcome[i] = "already extracted"
        /\ stats.extracted = Cardinality(ExtractedImages)
        /\ stats.problems =
              Cardinality({orig_img_name(i) : i \in TooSmallImages \cup RaisedImages})

\* a first run extracted an image and reported a problem; the second run
\* passed over the extracted image, extracted nothing and reported a problem
C5_Witness ==
    /\ AfterCompletedRun /\ pc = "done"
    /\ ended[1].stats.extracted > 0
    /\ ended[1].stats.problems > 0
    /\ \E i \in 1..n_total : outcome[i] = "already extracted"
    /\ stats.extracted = 0
    /\ stats.problems > 0

\* C6: when the run has ended and no write raised, every image counted as newly
\* extracted has its artifact at its path, inline and pooled alike, and the
\* number of artifacts the run produced is the newly-extracted counter.
C6_ArtifactsAtRunEnd ==
    (pc = "done" /\ failed = {}) =>
        /\ \A i \in ExtractedImages : files[dump_fname(i)] = "complete"
        /\ Cardinality(written) = stats.extracted

\* C7: when a terminated run is followed by a run over the same list that
\* completes, no image was passed over because of a partly written artifact,
\* and every image that is neither too small nor failed by the detector has a
\* completely written artifact. Stated for the second runs in which every write
\* that run dispatched was made, so that only what the terminated run left
\* behind can break it.
C7_Resumable ==
    (AfterKilledRun /\ pc = "done" /\ ExtractedImages \subseteq written) =>
        /\ \A i \in 1..n_total :
              outcome[i] = "already extracted" => files0[dump_fname(i)] # "partial"
        /\ \A i \in 1..n_total :
              (image_list[i].elems >= 30000 /\ outcome[i] # "inference exception")
                  => files[dump_fname(i)] = "complete"

\* the line the report is to hold for a problems entry: identifier, TAB, reason
ReportLine(e) == << <<"id", e[1]>>, <<"tab">>, <<"reason", e[2]>> >>

\* C8: after the flush the report holds one line per problems entry, each the
\* identifier, a TAB and the reason; with no entry the report is as it was
\* when the run started.
C8_ReportLines ==
    pc \in {"summary", "done"} =>
        IF Len(problems) > 0
        THEN /\ report.exists
             /\ Lines(report.content) =
                   [i \in 1..Len(problems) |-> ReportLine(problems[i])]
        ELSE report = report0

\* ------------------------------------------------------- claims C11 to C20
\* the arguments or the installation make the run impossible
ConfigFault ==
    \/ format \notin FORMATS
    \/ format = "hickle" /\ ~HICKLE
    \/ ~IsOidV4(model_folder)

BeforePool == {"start", "check_hickle", "check_model", "get_dump_fn"}

\* C11: with a format outside pickle/hickle/npz, with hickle asked for and not
\* installed, or with a model folder whose name lacks oid_v4, the run never
\* gets past the checks: it goes on until it has ended (aborted or exited), the
\* model is never loaded or called, no pool and no output folder is created,
\* and no artifact and no report is written.
C11_ConfigFaultStopsEarly ==
    ConfigFault =>
        /\ pc \in BeforePool \union {"aborted", "exited"}
        /\ pc \in BeforePool => ENABLED NextSetup
        /\ model = "unset"
        /\ calls = <<>>
        /\ pool = "unset"
        /\ out_folder # "created"
        /\ files = files0
        /\ report = report0

\* hickle was asked for and is not installed, and the run has exited
C11_Witness ==
    /\ format = "hickle"
    /\ ~HICKLE
    /\ IsOidV4(model_folder)
    /\ pc = "exited"
    /\ pool = "unset"

\* the write of list position i fails on this step
WriteFails(i) == run' = run /\ i \in failed' /\ i \notin failed

\* C12: a write that fails in a pool process is not seen by the loop: the step
\* leaves the loop where it is, the image stays counted as extracted and the
\* problems dict is unchanged. A write that fails inline ends the run on that
\* step: the entries after it are never handled, and no report and no summary
\* is written.
C12_WriteErrorAsymmetry ==
    /\ [][ \A i \in 1..n_total : WriteFails(i) =>
             IF parallel
             THEN /\ pc' = pc /\ idx' = idx
                  /\ problems' = problems
                  /\ outcome[i] = "extracted" /\ outcome' = outcome
                  /\ n_extracted' = n_extracted
                  /\ n_extracted >= 1
             ELSE /\ i = idx
                  /\ pc' = "aborted" ]_vars
    /\ [] ((~parallel /\ pc = "aborted" /\ failed # {}) =>
             /\ \A j \in (idx + 1)..n_total : outcome[j] = "none"
             /\ report = report0
             /\ stats = NoStats)

\* a pooled run has ended with its summary, counting an image whose write failed
C12_Witness ==
    /\ parallel
    /\ pc = "done"
    /\ failed # {}
    /\ stats.extracted >= 1
    /\ stats.problems = 0

\* C13: any two list entries with different basenames have different output
\* paths, whatever the offset, so the writes dispatched in one run all go to
\* different paths.
C13_DistinctPaths ==
    \A k, l \in 1..Len(dispatched) :
        orig_img_name(dispatched[k]) # orig_img_name(dispatched[l]) =>
            dump_fname(dispatched[k]) # dump_fname(dispatched[l])

ProblemImages ==
    {i \in 1..n_total : outcome[i] \in {"too small", "inference exception"}}

\* the first list position that put this identifier into the problems dict
FirstProblem(name) ==
    CHOOSE i \in ProblemImages :
        /\ orig_img_name(i) = name
        /\ \A j \in ProblemImages : orig_img_name(j) = name => i <= j

\* the identifiers written into a report, in the order of the text
IdsOf(text) ==
    LET ids == SelectSeq(text, LAMBDA t : t[1] = "id")
    IN  [k \in 1..Len(ids) |-> ids[k][2]]

\* C15: the list is handled in its order: every position before the current one
\* has its outcome and none after it has one, and the detector is called on
\* increasing list positions. The problems dict holds its identifiers in the
\* order in which the list first produced them, and a report flushed by the run
\* lists them in that order.
C15_ListOrder ==
    /\ Running =>
          /\ \A i \in 1..n_total : i < idx => outcome[i] # "none"
          /\ \A i \in 1..n_total : i > idx => outcome[i] = "none"
    /\ \A k, l \in 1..Len(calls) : k < l => calls[k] < calls[l]
    /\ \A k \in 1..Len(problems) :
          \E i \in ProblemImages : orig_img_name(i) = problems[k][1]
    /\ \A k, l \in 1..Len(problems) :
          k < l => FirstProblem(problems[k][1]) < FirstProblem(problems[l][1])
    /\ (pc \in {"summary", "done"} /\ Len(problems) > 0) =>
          IdsOf(report.content) = [k \in 1..Len(problems) |-> problems[k][1]]

\* a run has ended with a report of two entries, one of them for an image on
\* which the detector raised
C15_Witness ==
    /\ pc = "done"
    /\ Len(problems) = 2
    /\ Len(calls) >= 1
    /\ Len(IdsOf(report.content)) = 2

\* this step handles the current list entry with a too-small or an
\* inference-exception outcome
ProblemStep ==
    /\ AtEntry
    /\ MainStep
    /\ outcome'[idx] \in {"too small", "inference exception"}

\* within a run the problems dict keeps every entry it has, in place and with
\* its reason, and gets exactly one more entry on a problem step
LedgerStep ==
    run' = run =>
        /\ Len(problems') >= Len(problems)
        /\ \A k \in 1..Len(problems) : problems'[k] = problems[k]
        /\ Len(problems') = Len(problems) + (IF ProblemStep THEN 1 ELSE 0)

\* C16 as stated: for every list, also one in which two entries share a
\* basename, every step of a run keeps the entries of the problems dict as they
\* are and adds exactly one entry per too-small or inference-exception outcome.
C16_AppendOnlyAnyList == [][LedgerStep]_vars

\* C16, amended: for a list whose basenames are pairwise different, every step
\* of a run keeps the entries of the problems dict as they are (same place,
\* same reason) and adds exactly one entry per too-small or inference-exception
\* outcome, so the number of entries never decreases before the flush.
C16_AppendOnly == [][UniqueIdentifiers => LedgerStep]_vars

\* two images with different basenames have each added their entry
C16_Witness ==
    /\ UniqueIdentifiers
    /\ Len(problems) = 2
    /\ problems[1][2] = "inference exception"
    /\ problems[2][2] = "too small"

\* C17: when no write fails, the loop ends only by exhausting the list: the run
\* is never aborted, from every state before the summary the main process can
\* take its next step, and when the loop has ended every list position has
\* been handled, whatever mix of returning and raising detector calls it saw.
C17_LoopExhaustsList ==
    (failed = {} /\ pc # "killed") =>
        /\ pc # "aborted"
        /\ Running =>
              ENABLED (TooSmall \/ AlreadyExtracted \/ ModelRaises \/ ModelReturns
                          \/ Breakpoint \/ ExtractPooled \/ ExtractInline
                          \/ DumpReturns \/ LoopEnds \/ FlushReport \/ SkipReport
                          \/ Summary)
        /\ pc \in {"flush", "summary", "done"} =>
              \A i \in 1..n_total : outcome[i] # "none"

SkippedImages == {i \in 1..n_total : outcome[i] = "already extracted"}

\* C19: for a list with pairwise different basenames, when the loop stands
\* before position idx every earlier position has exactly one of the four
\* outcomes (a problem outcome exactly when its identifier is in the problems
\* dict, extracted exactly when a write was dispatched for it), and the entries
\* of the problems dict, the extracted counter and the positions passed over
\* add up to idx - 1. The extracted counter equals the number of writes
\* dispatched, and the summary has problems + extracted <= total.
C19_Conservation ==
    UniqueIdentifiers =>
        /\ pc = "loop" =>
              /\ \A i \in 1..(idx - 1) :
                    /\ outcome[i] \in {"too small", "already extracted",
                                       "inference exception", "extracted"}
                    /\ i \in ProblemImages <=>
                          DictHas(problems, orig_img_name(i))
                    /\ i \in ExtractedImages <=>
                          \E k \in 1..Len(dispatched) : dispatched[k] = i
              /\ Len(problems) + n_extracted + Cardinality(SkippedImages)
                    = idx - 1
        /\ pc \in {"loop", "flush", "summary", "done"} =>
              n_extracted = Len(dispatched)
        /\ pc = "done" =>
              /\ stats.problems = Len(problems)
              /\ stats.extracted = n_extracted
              /\ stats.problems + stats.extracted <= stats.total

\* a run over two entries has ended with one problem and one entry passed over
C19_Witness ==
    /\ UniqueIdentifiers
    /\ pc = "done"
    /\ stats.total = 2
    /\ stats.problems = 1
    /\ stats.extracted = 0
    /\ Cardinality(SkippedImages) = 1

\* C20: within one run over a list with pairwise different basenames the
\* detector returns a result for at most one list entry per output path, in
\* inline mode and in pooled mode alike: once an entry has been extracted, a
\* later entry with the same path is passed over.
C20_OncePerPath ==
    UniqueIdentifiers =>
        \A i, j \in ExtractedImages : i # j => dump_fname(i) # dump_fname(j)

====
